---- MODULE Spec2Model ----
\* Model of the Alforsa site generator and publisher (alforsa_full_publish.py)
\* and of the standalone sitemap utility (scripts/generate_sitemap.py).
\*
\* Text is modelled as a sequence of tokens.  "/" is always a token of its own,
\* every other token stands for a run of characters that holds no "/" and no
\* white space, so rstrip("/"), lstrip("/"), strip(), startswith("/en/") and
\* replace("/ar/", "/en/") act on tokens exactly as they act on characters.
EXTENDS Integers, Sequences, FiniteSets, TLC

\* ------------------------------------------------------------------ bounds
MaxPages == 2        \* longest PAGES list drawn
MaxSlashes == 1      \* most trailing "/" on the configured main_url
MaxPathLen == 4      \* longest extra path (in tokens) given to the sitemap utility

VARIABLES
    PAGES,        \* the page inventory (sequence of PageSpec records)
    main_url,     \* BUSINESS["main_url"]
    files,        \* generated files on disk: path -> content
    archive,      \* entries of alforsa_site.zip: set of <<arcname, content>>
    written,      \* the write_text calls of the last build, in order
    gitdir,       \* alforsa_site/.git exists
    committed,    \* the repository has a commit
    remotes,      \* repo.remotes: sequence of [name, url]
    pc,           \* position of the running script
    rawUser,      \* what input() returned
    rawToken,     \* what getpass() returned
    username,     \* main's local username
    token,        \* main's local token
    r_status,     \* status code of the response being examined (0: none)
    branch,       \* push_site_to_github's local branch
    temp,         \* push_site_to_github's local temp: "none", "created", "fallback"
    pushExit,     \* how push_site_to_github left: "none", "returned", "raised"
    walked,       \* the files below the working directory when the archive was made
    trace,        \* operations performed by the current run, in order
    urls,         \* generate_sitemap.py: the path list
    idx,          \* generate_sitemap.py: next list index of the for loop
    lines,        \* generate_sitemap.py: the <url> blocks appended so far
    out_file      \* generate_sitemap.py: public/sitemap.xml as written (<<>>: not yet)

vars == <<PAGES, main_url, files, archive, written, gitdir, committed, remotes, pc,
          rawUser, rawToken, username, token, r_status, branch, temp, pushExit,
          walked, trace, urls, idx, lines, out_file>>

pubVars == <<PAGES, main_url, files, archive, written, gitdir, committed, remotes, pc,
             rawUser, rawToken, username, token, r_status, branch, temp, pushExit,
             walked, trace>>

smVars == <<urls, idx, lines, out_file>>

\* ------------------------------------------------------------ text helpers
RECURSIVE rstrip(_, _)
rstrip(s, c) ==
    IF s # <<>> /\ s[Len(s)] = c THEN rstrip(SubSeq(s, 1, Len(s) - 1), c) ELSE s

RECURSIVE lstrip(_, _)
lstrip(s, c) ==
    IF s # <<>> /\ s[1] = c THEN lstrip(Tail(s), c) ELSE s

Whitespace == {" ", "\t"}

RECURSIVE lstripWs(_)
lstripWs(s) == IF s # <<>> /\ s[1] \in Whitespace THEN lstripWs(Tail(s)) ELSE s

RECURSIVE rstripWs(_)
rstripWs(s) ==
    IF s # <<>> /\ s[Len(s)] \in Whitespace
    THEN rstripWs(SubSeq(s, 1, Len(s) - 1)) ELSE s

strip(s) == rstripWs(lstripWs(s))

startswith(s, p) == Len(s) >= Len(p) /\ SubSeq(s, 1, Len(p)) = p

\* str.replace(old, new): every non-overlapping occurrence, left to right
RECURSIVE replace(_, _, _)
replace(s, old, new) ==
    IF Len(s) < Len(old) THEN s
    ELSE IF startswith(s, old)
         THEN new \o replace(SubSeq(s, Len(old) + 1, Len(s)), old, new)
         ELSE <<s[1]>> \o replace(Tail(s), old, new)

Contains(s, t) == \E i \in 1..Len(s) : s[i] = t

\* ------------------------------------------------------------ configuration
OUTPUT_DIR == <<"alforsa_site">>
REPO_NAME == "alforsa"
zipname == <<"alforsa_site.zip">>
Host == <<"https://alforsa.sa">>

RECURSIVE Slashes(_)
Slashes(n) == IF n = 0 THEN <<>> ELSE <<"/">> \o Slashes(n - 1)

\* the configured main URL, with up to MaxSlashes trailing "/"
MainUrls == {Host \o Slashes(n) : n \in 0..MaxSlashes}

PageOf(s) == [slug |-> s, title_en |-> <<s, "(en)">>, title_ar |-> <<s, "(ar)">>]

\* an inventory to draw PAGES from; "index" is the slug that names the home page
Inventory == <<PageOf("x"), PageOf("index"), PageOf("y")>>

\* PageSpec lists with unique slugs: up to MaxPages entries of the inventory,
\* in its order
PageLists ==
    {SelectSeq(Inventory, LAMBDA p : p.slug \in T) :
        T \in {U \in SUBSET {"x", "index", "y"} : Cardinality(U) <= MaxPages}}

\* os.path.join / pathlib's "/" on token paths
join(a, b) == a \o <<"/">> \o b

IsUnder(p, top) == startswith(p, top \o <<"/">>) /\ Len(p) > Len(top) + 1

\* a slip: the archive name is the walked path itself
relpath_Identity(fp, start) == fp

\* os.path.relpath(fp, start) for fp below start
relpath(fp, start) ==
    IF IsUnder(fp, start) THEN SubSeq(fp, Len(start) + 2, Len(fp)) ELSE fp

\* A file's content.  One record shape for every kind of document; body and
\* hreflang are sequences of texts.
Doc(k, l, t, c, b, h) ==
    [kind |-> k, lang |-> l, title |-> t, canonical |-> c, body |-> b, hreflang |-> h]

NoFiles == [p \in {} |-> Doc("", "", <<>>, <<>>, <<>>, <<>>)]

\* one write_text call
W(p, c) == [path |-> p, content |-> c]

\* ------------------------------------------------------------ site builder
make_html_page(title, canonical, body_html, lang, hreflang_links) ==
    Doc("html", lang, title, canonical, body_html, hreflang_links)

\* a slip: the canonical is built on main_url as configured
en_canon_NoStrip(url, p) == url \o <<"/", "en", "/", p.slug, ".html">>

en_canon(url, p) == rstrip(url, "/") \o <<"/", "en", "/", p.slug, ".html">>
ar_canon(url, p) == rstrip(url, "/") \o <<"/", "ar", "/", p.slug, ".html">>

\* the body of "for p in PAGES": two write_text calls per entry
PageWrites(url, p) ==
    << W(join(join(OUTPUT_DIR, <<"en">>), <<p.slug, ".html">>),
         make_html_page(p.title_en \o <<" - ", "name_en">>, en_canon(url, p),
                        <<p.title_en>>, "en", <<>>)),
       W(join(join(OUTPUT_DIR, <<"ar">>), <<p.slug, ".html">>),
         make_html_page(p.title_ar \o <<" - ", "name_en">>, ar_canon(url, p),
                        <<p.title_ar>>, "ar", <<>>)) >>

RECURSIVE AllPageWrites(_, _)
AllPageWrites(url, pages) ==
    IF pages = <<>> THEN <<>>
    ELSE PageWrites(url, Head(pages)) \o AllPageWrites(url, Tail(pages))

\* the <li><a href="/<lang>/<slug>.html"> list of a home page, in PAGES order
home_body(pages, lang) ==
    [i \in 1..Len(pages) |-> <<"/", lang, "/", pages[i].slug, ".html">>]

HomeWrites(url, pages) ==
    << W(join(join(OUTPUT_DIR, <<"en">>), <<"index", ".html">>),
         make_html_page(<<"name_en", " - ", "Home">>,
                        rstrip(url, "/") \o <<"/", "en", "/", "index", ".html">>,
                        home_body(pages, "en"), "en", <<>>)),
       W(join(join(OUTPUT_DIR, <<"ar">>), <<"index", ".html">>),
         make_html_page(<<"name_ar", " - ", "Home">>,
                        rstrip(url, "/") \o <<"/", "ar", "/", "index", ".html">>,
                        home_body(pages, "ar"), "ar", <<>>)) >>

RootWrite(url) ==
    W(join(OUTPUT_DIR, <<"index", ".html">>),
      make_html_page(<<"name_en", " - ", "Landing">>, url,
                     << <<"/", "en", "/", "index", ".html">>,
                        <<"/", "ar", "/", "index", ".html">>, url >>,
                     "en",
                     << rstrip(url, "/") \o <<"/", "en", "/", "index", ".html">>,
                        rstrip(url, "/") \o <<"/", "ar", "/", "index", ".html">> >>))

RECURSIVE PageUrls(_, _)
PageUrls(base, pages) ==
    IF pages = <<>> THEN <<>>
    ELSE << base \o <<"/", "en", "/", Head(pages).slug, ".html">>,
            base \o <<"/", "ar", "/", Head(pages).slug, ".html">> >>
         \o PageUrls(base, Tail(pages))

\* a slip: the site root is listed as well as /index.html
SitemapUrls_WithRoot(url, pages) ==
    << rstrip(url, "/") \o <<"/">>,
       rstrip(url, "/") \o <<"/", "index", ".html">>,
       rstrip(url, "/") \o <<"/", "en", "/", "index", ".html">>,
       rstrip(url, "/") \o <<"/", "ar", "/", "index", ".html">> >>
    \o PageUrls(rstrip(url, "/"), pages)

\* the list "urls" of the sitemap section
SitemapUrls(url, pages) ==
    << rstrip(url, "/") \o <<"/", "index", ".html">>,
       rstrip(url, "/") \o <<"/", "en", "/", "index", ".html">>,
       rstrip(url, "/") \o <<"/", "ar", "/", "index", ".html">> >>
    \o PageUrls(rstrip(url, "/"), pages)

\* one <url><loc>u</loc><lastmod>today</lastmod></url> block per list entry
SitemapDoc(url, pages) ==
    Doc("sitemap", "", <<>>, <<>>, SitemapUrls(url, pages), <<>>)

AssetWrites(url, pages) ==
    << W(join(OUTPUT_DIR, <<"sitemap", ".xml">>), SitemapDoc(url, pages)),
       W(join(OUTPUT_DIR, <<"robots", ".txt">>),
         Doc("robots", "", <<>>, <<>>,
             << rstrip(url, "/") \o <<"/", "sitemap", ".xml">> >>, <<>>)),
       W(join(OUTPUT_DIR, <<"schema_localbusiness", ".json">>),
         Doc("json-ld", "", <<"name_en">>, url, << <<"SA">> >>, <<>>)),
       W(join(OUTPUT_DIR, <<"google-site-verification-alforsa", ".html">>),
         Doc("verification", "", <<>>, <<>>, << <<"replace_with_token">> >>, <<>>)),
       W(join(OUTPUT_DIR, <<"CNAME">>),
         Doc("cname", "", <<>>, <<>>, << <<"alforsa.sa">> >>, <<>>)) >>

\* every write_text call of build_site_and_assets, in source order
BuildWrites(url, pages) ==
    AllPageWrites(url, pages) \o HomeWrites(url, pages) \o <<RootWrite(url)>>
    \o AssetWrites(url, pages)

RECURSIVE ApplyWrites(_, _)
ApplyWrites(fs, ws) ==
    IF ws = <<>> THEN fs
    ELSE ApplyWrites((Head(ws).path :> Head(ws).content) @@ fs, Tail(ws))

\* ------------------------------------------------------------ the directory
GitPath(name) == join(join(OUTPUT_DIR, <<".git">>), <<name>>)

\* what git keeps under alforsa_site/.git; .git/config lists the remotes
GitFiles(g, c, rs) ==
    IF ~g THEN NoFiles
    ELSE (GitPath("HEAD") :> Doc("git-head", "", <<>>, <<>>, <<>>, <<>>))
         @@ (GitPath("config") :>
               Doc("git-config", "", <<>>, <<>>,
                   [i \in 1..Len(rs) |-> <<rs[i].name, "=">> \o rs[i].url], <<>>))
         @@ (IF c THEN GitPath("index") :> Doc("git-index", "", <<>>, <<>>, <<>>, <<>>)
             ELSE NoFiles)

\* every regular file below the working directory: path -> content
Tree(fs, g, c, rs) == fs @@ GitFiles(g, c, rs)

\* os.walk(top): the files below top
Walk(tree, top) == {p \in DOMAIN tree : IsUnder(p, top)}

\* the archive step: ZipFile(zipname, "w") creates the archive file, then every
\* walked file is written under its path relative to OUTPUT_DIR
ArchiveFile == Doc("zip", "", <<>>, <<>>, <<>>, <<>>)

ZipEntries(tree) ==
    {<<relpath(p, OUTPUT_DIR), tree[p]>> : p \in Walk(tree, OUTPUT_DIR)}

\* ------------------------------------------------------------ main()
\* one entry of the run's log: an operation, what it acted on, the branch it
\* names (if any) and how it ended
E(o, a, b, r) == [op |-> o, arg |-> a, branch |-> b, path |-> "", res |-> r]

\* a slip: the hosting source names the other branch the script pushes
payload_Main == [source |-> [branch |-> "main", path |-> "/"]]

\* enable_github_pages_api's request body (line 273)
payload == [source |-> [branch |-> "master", path |-> "/"]]

\* requests.post(pages_url, auth=(username, token), json=body) and how it ended
PagesPost(body, r) ==
    [op |-> "http_post", arg |-> "repos/pages", branch |-> body.source.branch,
     path |-> body.source.path, res |-> r]

RECURSIVE WriteEvents(_)
WriteEvents(ws) ==
    IF ws = <<>> THEN <<>>
    ELSE <<E("write_text", Head(ws).content.kind, "", "ok")>> \o WriteEvents(Tail(ws))

\* a slip: the push is made before the repository is created
MainCalls_PushFirst ==
    <<"build", "input", "git_init", "create_repo", "enable_pages", "next_steps">>

\* the calls of main in source order, each named by its first step
MainCalls ==
    <<"build", "input", "create_repo", "git_init", "enable_pages", "next_steps">>

\* where main continues when the call that began at step c returns
Ret(c) ==
    LET i == CHOOSE k \in 1..Len(MainCalls) : MainCalls[k] = c
    IN  IF i = Len(MainCalls) THEN "done" ELSE MainCalls[i + 1]

\* a slip: "and" for "or"
CredentialsMissing_Both(u, t) == u = <<>> /\ t = <<>>

\* "if not username or not token"
CredentialsMissing(u, t) == u = <<>> \/ t = <<>>

RawUsers == {<<>>, <<" ">>, <<" ", "u">>}
RawTokens == {<<>>, <<"\t">>, <<"t">>, <<"s", " ">>}

CreateStatuses == {201, 422, 500}
PagesStatuses == {201, 204, 409}

remote_url_with_token(u, t) ==
    <<"https://">> \o u \o <<":">> \o t \o <<"@github.com", "/">> \o u
    \o <<"/", REPO_NAME, ".git">>

HasRemote(rs, n) == \E i \in 1..Len(rs) : rs[i].name = n

Without(rs, n) == SelectSeq(rs, LAMBDA x : x.name # n)

TempOrigin(rs) == rs[CHOOSE i \in 1..Len(rs) : rs[i].name = "temp-origin"]

\* the handler of GitCommandError: "temp = ... else repo.remotes[0]"; an empty
\* remote list makes repo.remotes[0] raise IndexError, which nothing catches
RemoteFallback(rs) == IF rs = <<>> THEN "aborted" ELSE "push_master"

\* a slip: main is pushed whether or not master went through
PushNext_AlwaysMain(b, ok) ==
    IF b = "master" THEN "push_main" ELSE IF ok THEN "rm_temp" ELSE "push_failed"

\* where push_site_to_github goes after a push attempt on branch b
PushNext(b, ok) ==
    IF ok THEN "rm_temp" ELSE IF b = "master" THEN "push_main" ELSE "push_failed"

\* remotes the user may have added by hand since the last run, following its
\* closing hint ("push the 'alforsa_site' folder using git commands")
ManualRemotes(g, rs) ==
    {rs} \cup IF g /\ ~HasRemote(rs, "origin")
              THEN {Append(rs, [name |-> "origin", url |-> <<"https://", "github.com">>])}
              ELSE {}

\* main is started (lines 315-318): a fresh process, whose first call is
\* build_site_and_assets, over whatever the directory holds by then
Build ==
    /\ pc \in {"idle", "done", "aborted"}
    /\ \E rs \in ManualRemotes(gitdir, remotes) :
         LET ws == BuildWrites(main_url, PAGES)
             fs == (zipname :> ArchiveFile) @@ ApplyWrites(files, ws)
             tree == Tree(fs, gitdir, committed, rs)
         IN  /\ remotes' = rs
             /\ files' = fs
             /\ written' = ws
             /\ archive' = ZipEntries(tree)
             /\ walked' = tree
             /\ trace' = WriteEvents(ws) \o <<E("zip_write", "zip", "", "ok")>>
    /\ pc' = Ret("build")
    /\ rawUser' = <<>>
    /\ rawToken' = <<>>
    /\ username' = <<>>
    /\ token' = <<>>
    /\ r_status' = 0
    /\ branch' = ""
    /\ temp' = "none"
    /\ pushExit' = "none"
    /\ UNCHANGED <<PAGES, main_url, gitdir, committed>>
    /\ UNCHANGED smVars

Input ==
    /\ pc = "input"
    /\ \E ru \in RawUsers, rt \in RawTokens :
         /\ rawUser' = ru
         /\ rawToken' = rt
         /\ username' = strip(ru)
         /\ token' = strip(rt)
         /\ IF CredentialsMissing(strip(ru), strip(rt))
            THEN /\ trace' = trace \o <<E("input", "username", "", "ok"),
                                        E("getpass", "token", "", "ok"),
                                        E("print", "credentials_required", "", "ok"),
                                        E("print", "local_site_path", "", "ok")>>
                 /\ pc' = "done"
            ELSE /\ trace' = trace \o <<E("input", "username", "", "ok"),
                                        E("getpass", "token", "", "ok")>>
                 /\ pc' = Ret("input")
    /\ r_status' = 0
    /\ UNCHANGED <<PAGES, main_url, files, archive, written, gitdir, committed, remotes, temp,
                   branch, pushExit, walked>>
    /\ UNCHANGED smVars

\* requests.post raises on a transport failure; nothing in main catches it
CreateRepo ==
    /\ pc = "create_repo"
    /\ \/ /\ \E st \in CreateStatuses : r_status' = st
          /\ trace' = Append(trace, E("http_post", "user/repos", "", "response"))
          /\ pc' = Ret("create_repo")
       \/ /\ r_status' = 0
          /\ trace' = Append(trace, E("http_post", "user/repos", "", "exception"))
          /\ pc' = "aborted"
    /\ UNCHANGED <<PAGES, main_url, files, archive, written, gitdir, committed, remotes, temp,
                   rawUser, rawToken, username, token, branch, pushExit, walked>>
    /\ UNCHANGED smVars

GitInit ==
    /\ pc = "git_init"
    /\ \/ /\ gitdir' = TRUE
          /\ trace' = Append(trace, E("git", "init", "", "ok"))
          /\ pc' = "commit"
          /\ pushExit' = pushExit
       \/ /\ gitdir' = gitdir
          /\ trace' = Append(trace, E("git", "init", "", "error"))
          /\ pc' = Ret("git_init")
          /\ pushExit' = "returned"
    /\ r_status' = 0
    /\ UNCHANGED <<PAGES, main_url, files, archive, written, committed, remotes, temp,
                   rawUser, rawToken, username, token, branch, walked>>
    /\ UNCHANGED smVars

Commit ==
    /\ pc = "commit"
    /\ \/ /\ committed' = TRUE
          /\ trace' = Append(trace, E("git", "commit", "", "ok"))
       \/ /\ committed' = committed
          /\ trace' = Append(trace, E("git", "commit", "", "error"))
    /\ pc' = "rm_old"
    /\ r_status' = 0
    /\ UNCHANGED <<PAGES, main_url, files, archive, written, gitdir, remotes, temp,
                   rawUser, rawToken, username, token, branch, pushExit, walked>>
    /\ UNCHANGED smVars

\* lines 238-240, and 242-244 when delete_remote raises GitCommandError
RemoveOld ==
    /\ pc = "rm_old"
    /\ IF ~HasRemote(remotes, "temp-origin")
       THEN /\ pc' = "add_remote"
            /\ UNCHANGED <<remotes, trace, pushExit, temp>>
       ELSE \/ /\ remotes' = Without(remotes, "temp-origin")
               /\ trace' = Append(trace, E("git", "remote_rm", "", "ok"))
               /\ pc' = "add_remote"
               /\ UNCHANGED <<pushExit, temp>>
            \/ /\ remotes' = remotes
               /\ trace' = Append(trace, E("git", "remote_rm", "", "error"))
               /\ pc' = RemoteFallback(remotes)
               /\ temp' = "fallback"
               /\ pushExit' = IF RemoteFallback(remotes) = "aborted" THEN "raised"
                              ELSE pushExit
    /\ r_status' = 0
    /\ UNCHANGED <<PAGES, main_url, files, archive, written, gitdir, committed,
                   rawUser, rawToken, username, token, branch, walked>>
    /\ UNCHANGED smVars

\* line 241, and 242-244 when create_remote raises GitCommandError
AddRemote ==
    /\ pc = "add_remote"
    /\ \/ /\ remotes' = Append(remotes,
                               [name |-> "temp-origin",
                                url |-> remote_url_with_token(username, token)])
          /\ trace' = Append(trace, E("git", "remote_add", "", "ok"))
          /\ pc' = "push_master"
          /\ temp' = "created"
          /\ pushExit' = pushExit
       \/ /\ remotes' = remotes
          /\ trace' = Append(trace, E("git", "remote_add", "", "error"))
          /\ pc' = RemoteFallback(remotes)
          /\ temp' = "fallback"
          /\ pushExit' = IF RemoteFallback(remotes) = "aborted" THEN "raised"
                         ELSE pushExit
    /\ r_status' = 0
    /\ UNCHANGED <<PAGES, main_url, files, archive, written, gitdir, committed,
                   rawUser, rawToken, username, token, branch, walked>>
    /\ UNCHANGED smVars

\* repo.remotes["temp-origin"].push(refspec=b:b, force=True) inside try: the
\* lookup raises IndexError when there is no such remote; push raises when git
\* reports no pushed ref
Push(b) ==
    /\ pc = "push_" \o b
    /\ branch' = b
    /\ IF ~HasRemote(remotes, "temp-origin")
       THEN /\ trace' = Append(trace, E("push", "no-remote", b, "error"))
            /\ pc' = PushNext(b, FALSE)
       ELSE \E ok \in BOOLEAN :
            /\ trace' = Append(trace, E("push", "temp-origin", b,
                                        IF ok THEN "ok" ELSE "error"))
            /\ pc' = PushNext(b, ok)
    /\ r_status' = 0
    /\ UNCHANGED <<PAGES, main_url, files, archive, written, gitdir, committed, remotes, temp,
                   rawUser, rawToken, username, token, pushExit, walked>>
    /\ UNCHANGED smVars

PushMaster == Push("master")

PushMain == Push("main")

\* "try: repo.delete_remote("temp-origin") except Exception: pass"
DeleteTemp(msg) ==
    /\ IF ~HasRemote(remotes, "temp-origin")
       THEN /\ remotes' = remotes
            /\ trace' = trace \o msg \o <<E("git", "remote_rm", "", "error")>>
       ELSE \/ /\ remotes' = Without(remotes, "temp-origin")
               /\ trace' = trace \o msg \o <<E("git", "remote_rm", "", "ok")>>
            \/ /\ remotes' = remotes
               /\ trace' = trace \o msg \o <<E("git", "remote_rm", "", "error")>>

\* lines 254-262: both pushes failed
PushFailed ==
    /\ pc = "push_failed"
    /\ DeleteTemp(<<E("print", "push_failed", "", "ok")>>)
    /\ pc' = Ret("git_init")
    /\ pushExit' = "returned"
    /\ r_status' = 0
    /\ UNCHANGED <<PAGES, main_url, files, archive, written, gitdir, committed, temp,
                   rawUser, rawToken, username, token, branch, walked>>
    /\ UNCHANGED smVars

\* lines 263-268: a push went through
RemoveTemp ==
    /\ pc = "rm_temp"
    /\ \/ /\ HasRemote(remotes, "temp-origin")
          /\ remotes' = Without(remotes, "temp-origin")
          /\ trace' = trace \o <<E("git", "remote_rm", "", "ok"),
                                 E("print", "pushed", branch, "ok")>>
       \/ /\ remotes' = remotes
          /\ trace' = trace \o <<E("git", "remote_rm", "", "error"),
                                 E("print", "pushed", branch, "ok")>>
    /\ pc' = Ret("git_init")
    /\ pushExit' = "returned"
    /\ r_status' = 0
    /\ UNCHANGED <<PAGES, main_url, files, archive, written, gitdir, committed, temp,
                   rawUser, rawToken, username, token, branch, walked>>
    /\ UNCHANGED smVars

EnablePages ==
    /\ pc = "enable_pages"
    /\ \/ /\ \E st \in PagesStatuses : r_status' = st
          /\ trace' = trace \o <<PagesPost(payload, "response"),
                                 E("print", "pages_url", "", "ok")>>
          /\ pc' = Ret("enable_pages")
       \/ /\ r_status' = 0
          /\ trace' = Append(trace, PagesPost(payload, "exception"))
          /\ pc' = "aborted"
    /\ UNCHANGED <<PAGES, main_url, files, archive, written, gitdir, committed, remotes, temp,
                   rawUser, rawToken, username, token, branch, pushExit, walked>>
    /\ UNCHANGED smVars

NextSteps ==
    /\ pc = "next_steps"
    /\ trace' = trace \o <<E("print", "next_steps", "", "ok"),
                           E("print", "done", "", "ok")>>
    /\ pc' = Ret("next_steps")
    /\ r_status' = 0
    /\ UNCHANGED <<PAGES, main_url, files, archive, written, gitdir, committed, remotes, temp,
                   rawUser, rawToken, username, token, branch, pushExit, walked>>
    /\ UNCHANGED smVars

SitemapIdle ==
    /\ urls = <<>>
    /\ idx = 1
    /\ lines = <<>>
    /\ out_file = <<>>

Init ==
    /\ PAGES \in PageLists
    /\ main_url \in MainUrls
    /\ files = NoFiles
    /\ archive = {}
    /\ written = <<>>
    /\ gitdir = FALSE
    /\ committed = FALSE
    /\ remotes = <<>>
    /\ pc = "idle"
    /\ rawUser = <<>>
    /\ rawToken = <<>>
    /\ username = <<>>
    /\ token = <<>>
    /\ r_status = 0
    /\ branch = ""
    /\ temp = "none"
    /\ pushExit = "none"
    /\ walked = NoFiles
    /\ trace = <<>>
    /\ SitemapIdle

Next ==
    \/ Build
    \/ Input
    \/ CreateRepo
    \/ GitInit
    \/ Commit
    \/ RemoveOld
    \/ AddRemote
    \/ PushMaster
    \/ PushMain
    \/ PushFailed
    \/ RemoveTemp
    \/ EnablePages
    \/ NextSteps

Spec == Init /\ [][Next]_vars

\* ------------------------------------------------------------ sitemap utility
base == <<"https://alforsa.sa">>

\* the list "urls" as the script ships it
SourceUrls ==
    << <<"/">>, <<"/", "en", "/">>, <<"/", "ar", "/">>,
       <<"/", "en", "/", "product-mini.html">>,
       <<"/", "ar", "/", "product-mini.html">> >>

PathTokens == {"/", "en", "ar", "about.html"}

\* paths a maintainer may add to the list: "/" and segments in turn, "/" first
PathPool ==
    {q \in UNION {[1..n -> PathTokens] : n \in 1..MaxPathLen} :
        \A i \in 1..Len(q) : (q[i] = "/") <=> (i % 2 = 1)}

\* en = path if path.startswith("/en/") else ("/en/" + path.lstrip("/"))
\*      if path == "/" else path.replace("/ar/", "/en/")
en_alt(path) ==
    IF startswith(path, <<"/", "en", "/">>) THEN path
    ELSE IF path = <<"/">> THEN <<"/", "en", "/">> \o lstrip(path, "/")
    ELSE replace(path, <<"/", "ar", "/">>, <<"/", "en", "/">>)

ar_alt(path) ==
    IF startswith(path, <<"/", "ar", "/">>) THEN path
    ELSE IF path = <<"/">> THEN <<"/", "ar", "/">> \o lstrip(path, "/")
    ELSE replace(path, <<"/", "en", "/">>, <<"/", "ar", "/">>)

\* one pass of "for path in urls"
SitemapLoop ==
    /\ idx <= Len(urls)
    /\ lines' = Append(lines, [path |-> urls[idx],
                               loc |-> base \o urls[idx],
                               changefreq |-> "weekly",
                               priority |-> "0.8",
                               en |-> base \o en_alt(urls[idx]),
                               ar |-> base \o ar_alt(urls[idx])])
    /\ idx' = idx + 1
    /\ UNCHANGED <<urls, out_file>>
    /\ UNCHANGED pubVars

\* the loop is over: the document is written to public/sitemap.xml
SitemapWrite ==
    /\ idx = Len(urls) + 1
    /\ urls # <<>>
    /\ out_file = <<>>
    /\ out_file' = lines
    /\ UNCHANGED <<urls, idx, lines>>
    /\ UNCHANGED pubVars

InitSitemap ==
    /\ urls \in {SourceUrls} \cup {SourceUrls \o <<p>> : p \in PathPool}
    /\ idx = 1
    /\ lines = <<>>
    /\ out_file = <<>>
    /\ PAGES = <<>>
    /\ main_url = Host
    /\ files = NoFiles
    /\ archive = {}
    /\ written = <<>>
    /\ gitdir = FALSE
    /\ committed = FALSE
    /\ remotes = <<>>
    /\ pc = "off"
    /\ rawUser = <<>>
    /\ rawToken = <<>>
    /\ username = <<>>
    /\ token = <<>>
    /\ r_status = 0
    /\ branch = ""
    /\ temp = "none"
    /\ pushExit = "none"
    /\ walked = NoFiles
    /\ trace = <<>>

NextSitemap ==
    \/ SitemapLoop
    \/ SitemapWrite

SitemapSpec == InitSitemap /\ [][NextSitemap]_vars

\* ------------------------------------------------------------ properties
SitemapPath == <<"alforsa_site", "/", "sitemap", ".xml">>

\* build_site_and_assets has just returned
BuildDone == pc = Ret("build") /\ written # <<>>

\* the <loc> entries of the builder's sitemap
Locs == files[SitemapPath].body

Positions(Q(_)) == {i \in 1..Len(trace) : Q(trace[i])}

IsPush(e) == e.op = "push"
IsGit(e) == e.op = "git"
IsWrite(e) == e.op \in {"write_text", "zip_write"}
IsRead(e) == e.op \in {"input", "getpass"}
IsCreateRequest(e) == e.op = "http_post" /\ e.arg = "user/repos"
IsPagesRequest(e) == e.op = "http_post" /\ e.arg = "repos/pages"
IsPushFailedReport(e) == e.op = "print" /\ e.arg = "push_failed"

PushEvents == SelectSeq(trace, IsPush)

\* C1: once push_site_to_github has returned or raised, the repository has no
\* remote named temp-origin, whichever way the function was left.
C1_NoTempOriginAfterPush ==
    pushExit # "none" => ~HasRemote(remotes, "temp-origin")

IsBlank(s) == \A i \in 1..Len(s) : s[i] \in Whitespace

\* C2: when the username or the credential typed in is empty once stripped, main
\* ends without any HTTP request and without any version-control operation,
\* reports the local build path, and leaves the tree as the build wrote it.
C2_MissingCredentialSkipsPublish ==
    (pc \notin {"idle", "input"} /\ (IsBlank(rawUser) \/ IsBlank(rawToken)))
    => /\ pc = "done"
       /\ \A i \in 1..Len(trace) : trace[i].op \notin {"http_post", "git", "push"}
       /\ \E i \in 1..Len(trace) :
            trace[i].op = "print" /\ trace[i].arg = "local_site_path"
       /\ Tree(files, gitdir, committed, remotes) = walked

C2_Witness ==
    /\ pc = "done"
    /\ rawUser = <<" ">>
    /\ rawToken = <<"t">>
    /\ gitdir

\* C3: a push to main is attempted exactly when the push to master failed, at
\* most once; the final failure is reported only after both attempts failed; no
\* run makes more than two push attempts.
C3_SingleFallback ==
    /\ Len(PushEvents) <= 2
    /\ Len(PushEvents) >= 1 => PushEvents[1].branch = "master"
    /\ Len(PushEvents) = 2 =>
         PushEvents[2].branch = "main" /\ PushEvents[1].res = "error"
    /\ (Len(PushEvents) >= 1 /\ PushEvents[1].res = "error" /\ pc # "push_main")
         => Len(PushEvents) = 2
    /\ \A k \in Positions(IsPushFailedReport) :
         /\ Len(PushEvents) = 2
         /\ PushEvents[2].res = "error"
         /\ \A i \in Positions(IsPush) : i < k

C3_Witness ==
    /\ Len(PushEvents) = 2
    /\ PushEvents[1].res = "error"
    /\ PushEvents[2].res = "ok"
    /\ pushExit = "returned"

\* C4: with a username and a credential given, no outcome of a publish step
\* keeps the later steps from running: a finished run has entered the push step
\* after the create-repository request and has issued the enable-hosting request
\* after that.
C4_FailuresDoNotAbort ==
    (pc \in {"done", "aborted"} /\ username # <<>> /\ token # <<>>)
    => \E c \in Positions(IsCreateRequest), g \in Positions(IsGit),
          h \in Positions(IsPagesRequest) : c < g /\ g < h

NoDuplicates(q) == \A i, j \in 1..Len(q) : i # j => q[i] # q[j]

\* C5 as stated: the builder's sitemap holds exactly 4 + 2*|PAGES| <loc>
\* entries, no two of them equal.
C5_FourPlusTwoPerPage ==
    BuildDone => Len(Locs) = 4 + 2 * Len(PAGES) /\ NoDuplicates(Locs)

\* C5 amended: the builder's sitemap holds exactly 3 + 2*|PAGES| <loc> entries
\* (root, two home pages, two per entry); no two of them are equal unless an
\* entry has the slug "index", whose pages share their URLs with the home pages.
C5_ThreePlusTwoPerPage ==
    BuildDone =>
       /\ Len(Locs) = 3 + 2 * Len(PAGES)
       /\ (\A i \in 1..Len(PAGES) : PAGES[i].slug # "index") => NoDuplicates(Locs)

C5_Witness ==
    /\ BuildDone
    /\ Len(PAGES) = 2
    /\ \A i \in 1..Len(PAGES) : PAGES[i].slug # "index"

\* the write_text calls whose document is the page of entry p
DocsOf(p) ==
    {k \in 1..Len(written) :
        /\ written[k].content.kind = "html"
        /\ written[k].content.body \in {<<p.title_en>>, <<p.title_ar>>}}

\* C6: for every PAGES entry the build writes exactly two documents,
\* en/<slug>.html and ar/<slug>.html; the canonical link of the one for language
\* L is the main URL without trailing slash followed by /L/<slug>.html, with or
\* without a trailing slash on the configured main URL, and the sitemap lists
\* that same URL.
C6_TwoDocumentsWithCanonical ==
    BuildDone =>
      \A i \in 1..Len(PAGES) :
        /\ Cardinality(DocsOf(PAGES[i])) = 2
        /\ \A L \in {"en", "ar"} :
             LET path == <<"alforsa_site", "/", L, "/", PAGES[i].slug, ".html">>
                 want == Host \o <<"/", L, "/", PAGES[i].slug, ".html">>
             IN  /\ \E k \in DocsOf(PAGES[i]) :
                      /\ written[k].path = path
                      /\ written[k].content.lang = L
                      /\ written[k].content.canonical = want
                 /\ path \in DOMAIN files
                 /\ files[path].canonical = want
                 /\ \E n \in 1..Len(Locs) : Locs[n] = want

C6_Witness ==
    /\ BuildDone
    /\ Len(PAGES) = 2
    /\ main_url = Host \o <<"/">>

\* C7: the (entry name, content) pairs of alforsa_site.zip are exactly the
\* (path relative to the output root, content) pairs of the files below the
\* output root when the archive was made, also when the directory was left by an
\* earlier build and publish; no entry name holds the root's directory name and
\* the archive is not an entry of itself.
C7_ArchiveMirrorsTree ==
    BuildDone =>
       /\ \A e \in archive :
            /\ (<<"alforsa_site", "/">> \o e[1]) \in DOMAIN walked
            /\ walked[<<"alforsa_site", "/">> \o e[1]] = e[2]
            /\ ~Contains(e[1], "alforsa_site")
            /\ e[2].kind # "zip"
       /\ \A p \in DOMAIN walked :
            (Len(p) > 2 /\ p[1] = "alforsa_site" /\ p[2] = "/")
            => \E e \in archive : <<"alforsa_site", "/">> \o e[1] = p /\ e[2] = walked[p]

C7_Witness ==
    /\ pc = "input"
    /\ \E e \in archive : e[1] = <<".git", "/", "config">> /\ e[2].body # <<>>
    /\ \E e \in archive : e[1] = <<"en", "/", "x", ".html">>

\* the alternate of a path for language L as C8 describes it: a language prefix
\* is swapped for /L/, any other path gets /L/ put in front
PrefixedVariant(path, L) ==
    IF startswith(path, <<"/", "en", "/">>) \/ startswith(path, <<"/", "ar", "/">>)
    THEN <<"/", L, "/">> \o SubSeq(path, 4, Len(path))
    ELSE <<"/", L, "/">> \o lstrip(path, "/")

\* C8: for every path of the list the hreflang="en" alternate is its
\* /en/-prefixed variant and the hreflang="ar" alternate its /ar/-prefixed one.
C8_AlternatesArePrefixedVariants ==
    \A i \in 1..Len(lines) :
       /\ lines[i].en = base \o PrefixedVariant(lines[i].path, "en")
       /\ lines[i].ar = base \o PrefixedVariant(lines[i].path, "ar")

\* C9: within a run every file write and the archive come before the username
\* and credential are read; the create-repository request comes before git
\* init, commit and every push; every push comes before the enable-hosting
\* request; each of the two requests is issued at most once.
C9_FixedOrder ==
    /\ \A r \in Positions(IsRead) :
         /\ \A w \in Positions(IsWrite) : w < r
         /\ Cardinality(Positions(IsWrite)) = Len(written) + 1
    /\ \A g \in Positions(IsGit) \cup Positions(IsPush) :
         \E c \in Positions(IsCreateRequest) : c < g
    /\ \A h \in Positions(IsPagesRequest) :
         /\ \A g \in Positions(IsGit) \cup Positions(IsPush) : g < h
         /\ \E c \in Positions(IsCreateRequest) : c < h
         /\ \E r \in Positions(IsRead) : r < h
    /\ Cardinality(Positions(IsCreateRequest)) <= 1
    /\ Cardinality(Positions(IsPagesRequest)) <= 1

C9_Witness ==
    /\ pc = "done"
    /\ Positions(IsPush) # {}
    /\ Positions(IsPagesRequest) # {}
    /\ Positions(IsCreateRequest) # {}

\* C10: whenever a push is attempted, the temp-origin remote it goes through was
\* created by this invocation and its URL embeds this invocation's username and
\* credential, also when a temp-origin of an earlier run existed at entry.
C10_PushUsesOwnRemote ==
    (pc \in {"push_master", "push_main"} /\ HasRemote(remotes, "temp-origin"))
    => /\ temp = "created"
       /\ TempOrigin(remotes).url = remote_url_with_token(username, token)

IsPushedMessage(e) == e.op = "print" /\ e.arg = "pushed"
IsNextSteps(e) == e.op = "print" /\ e.arg = "next_steps"

\* C11: in a run that gets to the enable-hosting step the request is issued and
\* names source branch "master" and path "/", whatever the pushes did before
\* it; the push-success message is printed only after a push that succeeded,
\* that push is the last attempt made, and the message names its branch.
C11_PagesSourceIsMaster ==
    /\ (pc = Ret("enable_pages") \/ Positions(IsNextSteps) # {})
         => Positions(IsPagesRequest) # {}
    /\ \A h \in Positions(IsPagesRequest) :
         trace[h].branch = "master" /\ trace[h].path = "/"
    /\ \A m \in Positions(IsPushedMessage) :
         /\ PushEvents # <<>>
         /\ PushEvents[Len(PushEvents)].res = "ok"
         /\ PushEvents[Len(PushEvents)].branch = trace[m].branch
         /\ \A k \in 1..(Len(PushEvents) - 1) : PushEvents[k].res = "error"
         /\ \A g \in Positions(IsPush) : g < m

\* the push to master failed, the push to main went through and was reported,
\* and the enable-hosting request has been sent
C11_Witness ==
    /\ \E g \in Positions(IsPush) :
         trace[g].branch = "master" /\ trace[g].res = "error"
    /\ \E g \in Positions(IsPush) :
         trace[g].branch = "main" /\ trace[g].res = "ok"
    /\ \E m \in Positions(IsPushedMessage) : trace[m].branch = "main"
    /\ \E h \in Positions(IsPagesRequest) : trace[h].res = "response"

====
